---- MODULE Spec2Model ----
(***************************************************************************)
(* The scope-synchronised memory manager of the Aize runtime               *)
(* (aize_builtins.c): the Depth Counter aize_mem_depth, the Allocation     *)
(* Ledger aize_mem_bound, the object headers (AizeBase) and the growable   *)
(* AizeList built on them.                                                 *)
(*                                                                         *)
(* Objects are numbered in allocation order; heap[o] is the header of      *)
(* object o.  A block obtained from malloc/calloc/realloc is modelled by   *)
(* its size in bytes next to the entries the program keeps in it, so that  *)
(* an access past the end of a block is visible.  Such an access is        *)
(* undefined behaviour: the model lets it either find the memory as the    *)
(* program left it or fault (pc = "fault", the process is gone).           *)
(***************************************************************************)
EXTENDS Integers, Sequences, FiniteSets, TLC

VARIABLES
    aize_mem_depth,   \* uint32_t aize_mem_depth
    aize_mem_bound,   \* struct AizeArrayList aize_mem_bound, with the bytes of arr's block
    heap,             \* heap[o]: header of the o-th object given out by aize_mem_malloc
    list,             \* the struct AizeList under test, or NoList
    got,              \* what the last AizeList_get returned
    pc,               \* "idle" | "ret" (inside aize_mem_ret, before its aize_mem_exit) | "fault"
    frames,           \* caller's view: the Depth Counter saved at each open aize_mem_enter
    base,             \* number of objects (or list items) already present in the initial state
    hist,             \* per object: the depth it was allocated at (born), whether aize_mem_ret
                      \* has flagged it (marked), whether its allocating scope is still open
    appended,         \* caller's view: the references passed to AizeList_append, in order
    last,             \* the operation that produced this state; arg: the object passed to
                      \* aize_mem_ret, or the index passed to AizeList_get
    released          \* per object: what its release has done so far, in order
                      \* ("on_release": the hook was invoked, "free": the memory was freed)

vars == <<aize_mem_depth, aize_mem_bound, heap, list, got, pc, frames, base, hist, appended, last,
          released>>

(***************************************************************************)
(* Program constants                                                       *)
(***************************************************************************)
START_SIZE == 256
SCALE_FACTOR == 2
SHRINK_WHEN == 4
SHRINK_FACTOR == 2
LIST_START_SIZE == 16
LIST_SCALE_FACTOR == 2
\* sizeof(AizeBase**): one Ledger entry
SizeofPtr == 8
\* sizeof(AizeObjectRef): {void** vtable; AizeBase* obj}, one List entry
SizeofRef == 16
\* the value aize_mem_depth is defined with
InitialDepth == 1

(***************************************************************************)
(* Bounds of the model                                                     *)
(***************************************************************************)
\* objects allocated by the explored calls (on top of those of the initial state)
MaxObjs == 2
\* largest value of the Depth Counter explored
MaxDepth == 2
\* largest ref_count explored
MaxRef == 1
\* AizeList_append calls explored (on top of the items of the initial state)
MaxAppend == 3
\* Ledger lengths of the enclosing scope in the initial states of SpecResize
OuterCounts == {20, 100, 130}
\* items already in the list in the initial state of SpecList that has a list
ListItems == 15

NULL == 0
NoList == [len |-> 0, capacity |-> 0, arr |-> <<>>, bytes |-> 0, obj |-> NULL]

\* an AizeObjectRef {vtable, obj}: Ref(o) refers to object o, NullRef is
\* {NULL, NULL}, WildRef is whatever memory outside a block holds, NoRef stands
\* for "AizeList_get has not returned yet"
Ref(o) == [vtable |-> "vtable", obj |-> o]
NullRef == [vtable |-> "NULL", obj |-> NULL]
WildRef == [vtable |-> "wild", obj |-> NULL]
NoRef == [vtable |-> "none", obj |-> NULL]

(***************************************************************************)
(* The Ledger: aize_mem_init, aize_mem_add_mem, aize_mem_pop_mem           *)
(***************************************************************************)
\* calloc(START_SIZE, sizeof(AizeBase**)); capacity = START_SIZE
aize_mem_init ==
    [capacity |-> START_SIZE, len |-> 0, arr |-> <<>>, bytes |-> START_SIZE * SizeofPtr]

\* entries the block of b.arr has room for
Room(b) == b.bytes \div SizeofPtr

\* variants of aize_mem_add_mem that the properties below must tell apart from it:
\* one that puts the new entry at the head, one that never grows the capacity,
\* one that stores the new entry twice
add_mem_twice(b, mem) ==
    [capacity |-> b.capacity, len |-> b.len + 2, arr |-> b.arr \o <<mem, mem>>, bytes |-> b.bytes]

add_mem_at_head(b, mem) ==
    [capacity |-> IF b.len = b.capacity THEN b.capacity * SCALE_FACTOR ELSE b.capacity,
     len      |-> b.len + 1,
     arr      |-> <<mem>> \o b.arr,
     bytes    |-> IF b.len = b.capacity THEN b.capacity * SCALE_FACTOR * SizeofPtr ELSE b.bytes]

add_mem_no_growth(b, mem) ==
    [capacity |-> b.capacity, len |-> b.len + 1, arr |-> Append(b.arr, mem), bytes |-> b.bytes]

aize_mem_add_mem(b, mem) ==
    LET full == b.len = b.capacity
    IN  [capacity |-> IF full THEN b.capacity * SCALE_FACTOR ELSE b.capacity,
         len      |-> b.len + 1,
         arr      |-> Append(b.arr, mem),
         bytes    |-> IF full THEN b.capacity * SCALE_FACTOR * SizeofPtr ELSE b.bytes]

\* the write arr[len] = mem (or the copy made by a growing realloc) leaves arr's block
add_mem_oob(b) ==
    IF b.len = b.capacity THEN b.len > Room(b) ELSE b.len >= Room(b)

\* variants of aize_mem_pop_mem: one that pops nothing, one that leaves the last
\* of the num entries in place
pop_mem_nothing(b, num) == b

pop_mem_one_less(b, num) ==
    LET l == IF num > 0 THEN b.len - num + 1 ELSE b.len
    IN  [capacity |-> b.capacity, len |-> l, arr |-> SubSeq(b.arr, 1, l), bytes |-> b.bytes]

\* the shrink test of the oldest aize_builtins.c: capacity > SCALE_FACTOR * START_SIZE
pop_mem_strict_bound(b, num) ==
    LET l == b.len - num
        shrink == /\ b.capacity > SHRINK_FACTOR * START_SIZE
                  /\ l < b.capacity \div SHRINK_WHEN
    IN  [capacity |-> IF shrink THEN b.capacity \div SHRINK_FACTOR ELSE b.capacity,
         len      |-> l,
         arr      |-> SubSeq(b.arr, 1, l),
         bytes    |-> IF shrink THEN b.capacity \div SHRINK_FACTOR ELSE b.bytes]

aize_mem_pop_mem(b, num) ==
    LET l == b.len - num
        shrink == /\ b.capacity >= SHRINK_FACTOR * START_SIZE
                  /\ l < b.capacity \div SHRINK_WHEN
    IN  [capacity |-> IF shrink THEN b.capacity \div SHRINK_FACTOR ELSE b.capacity,
         len      |-> l,
         arr      |-> SubSeq(b.arr, 1, l),
         bytes    |-> IF shrink THEN b.capacity \div SHRINK_FACTOR ELSE b.bytes]

(***************************************************************************)
(* aize_mem_malloc: the new header has the current depth; malloc does not  *)
(* initialise ref_count, so it may read as any value.                      *)
(***************************************************************************)
\* variants of NewObject: one that does not stamp the depth, one that stamps
\* the depth of a scope not yet entered
NewObject_unstamped(d, rc) == [depth |-> 0, ref_count |-> rc, freed |-> FALSE]

NewObject_too_deep(d, rc) == [depth |-> d + 1, ref_count |-> rc, freed |-> FALSE]

NewObject(d, rc) == [depth |-> d, ref_count |-> rc, freed |-> FALSE]

\* what is remembered of an object once it has left the Ledger (freed or not)
GoneHist == [born |-> 0, marked |-> FALSE, open |-> FALSE]

\* free(obj): the header is gone; nothing the program does reads it again
FreedObject == [depth |-> 0, ref_count |-> 0, freed |-> TRUE]

(***************************************************************************)
(* aize_mem_collect                                                        *)
(***************************************************************************)
\* variants of visit that the properties below must tell apart from it: one
\* that frees nothing, one that ignores ref_count, one that frees the pending
\* entries, one that takes the enclosing scope for the exiting one
visit_one_scope_more(hdr, d) ==
    IF hdr.depth >= d - 1
    THEN IF hdr.ref_count # 0 THEN "floating" ELSE "free"
    ELSE IF hdr.depth = 0 THEN "ret" ELSE "break"

visit_free_pending(hdr, d) ==
    IF hdr.depth >= d
    THEN IF hdr.ref_count # 0 THEN "floating" ELSE "free"
    ELSE IF hdr.depth = 0 THEN "free" ELSE "break"

visit_keep_all(hdr, d) ==
    IF hdr.depth >= d THEN "floating" ELSE IF hdr.depth = 0 THEN "ret" ELSE "break"

visit_ignore_ref_count(hdr, d) ==
    IF hdr.depth >= d THEN "free" ELSE IF hdr.depth = 0 THEN "ret" ELSE "break"

\* the if / else-if chain of the loop body, on the header of the entry at hand
visit(hdr, d) ==
    IF hdr.depth >= d
    THEN IF hdr.ref_count # 0 THEN "floating" ELSE "free"
    ELSE IF hdr.depth = 0 THEN "ret"
    ELSE "break"

\* The for loop, which visits the entries from the tail towards the head until
\* one makes it break.  Entries are numbered from 1.
\* stop: the entry the loop breaks at (the one nearest the tail whose header
\*       is neither of the exiting scope nor pending), 0 if it reaches the head;
\* freed: the objects the loop frees;
\* again(i): entry i is an object the loop has freed at an entry nearer the
\*       tail, so what it reads there is a freed header;
\* ret_obj: the last pending entry visited, the one nearest the head.
collect_loop(h, arr, len, d) ==
    LET breaks   == {i \in 1..len : visit(h[arr[i]], d) = "break"}
        stop     == IF breaks = {} THEN 0 ELSE CHOOSE i \in breaks : \A j \in breaks : j <= i
        visited  == (stop + 1)..len
        freed    == {arr[i] : i \in {k \in visited : visit(h[arr[k]], d) = "free"}}
        again(i) == arr[i] \in freed /\ \E j \in (i + 1)..len : arr[j] = arr[i]
        found(i) == IF again(i) THEN FreedObject ELSE h[arr[i]]
        rets     == {i \in visited : visit(found(i), d) = "ret"}
    IN  [heap       |-> [o \in DOMAIN h |-> IF o \in freed THEN FreedObject ELSE h[o]],
         num_to_pop |-> len - stop,
         ret_obj    |-> IF rets = {} THEN NULL
                        ELSE arr[CHOOSE i \in rets : \A j \in rets : i <= j],
         uaf        |-> \E i \in visited : found(i).freed]

aize_mem_collect(h, b, d) ==
    LET st == collect_loop(h, b.arr, b.len, d)
        popped == aize_mem_pop_mem(b, st.num_to_pop)
    IN  IF st.ret_obj # NULL
        THEN [heap  |-> [st.heap EXCEPT ![st.ret_obj].depth = d - 1],
              bound |-> aize_mem_add_mem(popped, st.ret_obj),
              num   |-> st.num_to_pop,
              ub    |-> st.uaf \/ b.len > Room(b) \/ add_mem_oob(popped)]
        ELSE [heap  |-> st.heap,
              bound |-> popped,
              num   |-> st.num_to_pop,
              ub    |-> st.uaf \/ b.len > Room(b)]

\* aize_mem_depth += 1 and aize_mem_depth -= 1.  The counter is a uint32_t; the
\* explored calls keep it within 0..MaxDepth (aize_mem_exit is never called
\* with the counter at 0), so neither operation wraps.
enter_depth(d) == d + 1
\* a variant of exit_depth that leaves the counter alone
exit_depth_none(d) == d
exit_depth(d) == d - 1

\* a variant of the marking step that does not compare depths
mark_return_always(h, d, obj) == [h EXCEPT ![obj].depth = 0]

\* the marking step of aize_mem_ret
mark_return(h, d, obj) ==
    IF h[obj].depth >= d THEN [h EXCEPT ![obj].depth = 0] ELSE h

(***************************************************************************)
(* The release of an object.  One version of aize_common.h declares the    *)
(* header with an on_free field, a function pointer taking an              *)
(* AizeObjectRef; the collector that goes with that header is not among    *)
(* the sources.  What releasing does with the hook follows the             *)
(* specification: "release the object's memory (invoking on_release first  *)
(* if present)".                                                           *)
(***************************************************************************)
\* the hook is optional: the objects with an odd number carry one
HasHook(o) == o % 2 = 1

\* the events of releasing object o, in order
release(o) == IF HasHook(o) THEN <<"on_release", "free">> ELSE <<"free">>

(***************************************************************************)
(* Actions                                                                 *)
(***************************************************************************)
\* references the caller holds and may pass in
Handles == {o \in 1..Len(heap) : o >= base /\ ~heap[o].freed}

\* an operation that ran into undefined behaviour may fault instead of completing
Outcomes(ub) == IF ub THEN {"ok", "fault"} ELSE {"ok"}

\* the process dies inside operation op
Fault(op, arg) ==
    /\ pc' = "fault"
    /\ last' = [op |-> op, arg |-> arg]
    /\ UNCHANGED <<aize_mem_depth, aize_mem_bound, heap, list, got, frames, base, hist, appended, released>>

aize_mem_malloc ==
    /\ pc = "idle"
    /\ Len(heap) < base + MaxObjs
    /\ \E rc \in 0..MaxRef :
       \E out \in Outcomes(add_mem_oob(aize_mem_bound)) :
          IF out = "fault" THEN Fault("malloc", NULL)
          ELSE /\ heap' = Append(heap, NewObject(aize_mem_depth, rc))
               /\ hist' = Append(hist, [born |-> aize_mem_depth, marked |-> FALSE,
                                        open |-> TRUE])
               /\ aize_mem_bound' = aize_mem_add_mem(aize_mem_bound, Len(heap) + 1)
               /\ last' = [op |-> "malloc", arg |-> NULL]
               /\ released' = Append(released, <<>>)
               /\ UNCHANGED <<aize_mem_depth, list, got, pc, frames, base, appended>>

aize_mem_enter ==
    /\ pc = "idle"
    /\ aize_mem_depth < MaxDepth
    /\ aize_mem_depth' = enter_depth(aize_mem_depth)
    /\ frames' = Append(frames, aize_mem_depth)
    /\ last' = [op |-> "enter", arg |-> NULL]
    /\ UNCHANGED <<aize_mem_bound, heap, list, got, pc, base, hist, appended, released>>

\* aize_mem_collect(); aize_mem_depth -= 1;
DoExit(op, obj) ==
    \E c \in {aize_mem_collect(heap, aize_mem_bound, aize_mem_depth)} :
    \E kept \in {{c.bound.arr[i] : i \in 1..c.bound.len}} :
    \E out \in Outcomes(c.ub) :
          IF out = "fault" THEN Fault(op, obj)
          ELSE /\ heap' = c.heap
               /\ aize_mem_bound' = c.bound
               /\ aize_mem_depth' = exit_depth(aize_mem_depth)
               /\ frames' = IF frames = <<>> THEN frames
                            ELSE SubSeq(frames, 1, Len(frames) - 1)
               /\ hist' = [o \in DOMAIN hist |->
                              IF o \notin kept THEN GoneHist
                              ELSE IF hist[o].born >= aize_mem_depth
                              THEN [hist[o] EXCEPT !.open = FALSE] ELSE hist[o]]
               /\ pc' = "idle"
               /\ last' = [op |-> op, arg |-> obj]
               /\ released' = [o \in DOMAIN released |->
                                  IF c.heap[o].freed /\ ~heap[o].freed
                                  THEN released[o] \o release(o) ELSE released[o]]
               /\ UNCHANGED <<list, got, base, appended>>

\* called once per aize_mem_enter, and once for the scope the program starts in
aize_mem_exit ==
    /\ pc = "idle"
    /\ aize_mem_depth >= 1
    /\ DoExit("exit", NULL)

\* aize_mem_ret, up to its call of aize_mem_exit
aize_mem_ret ==
    /\ pc = "idle"
    /\ aize_mem_depth >= 1
    /\ \E obj \in Handles :
          /\ heap' = mark_return(heap, aize_mem_depth, obj)
          /\ hist' = IF heap[obj].depth >= aize_mem_depth /\ hist[obj] # GoneHist
                      THEN [hist EXCEPT ![obj].marked = TRUE] ELSE hist
          /\ pc' = "ret"
          /\ last' = [op |-> "mark", arg |-> obj]
          /\ UNCHANGED <<aize_mem_depth, aize_mem_bound, list, got, frames, base, appended, released>>

\* aize_mem_ret, its call of aize_mem_exit and its return of obj
aize_mem_ret_exit ==
    /\ pc = "ret"
    /\ DoExit("ret", last.arg)

\* collaborating code stores or drops a reference held outside the scope mechanism
ref_count_inc ==
    /\ pc = "idle"
    /\ \E obj \in Handles :
          /\ heap[obj].ref_count < MaxRef
          /\ heap' = [heap EXCEPT ![obj].ref_count = @ + 1]
          /\ last' = [op |-> "ref_inc", arg |-> NULL]
          /\ UNCHANGED <<aize_mem_depth, aize_mem_bound, list, got, pc, frames, base, hist, appended, released>>

ref_count_dec ==
    /\ pc = "idle"
    /\ \E obj \in Handles :
          /\ heap[obj].ref_count > 0
          /\ heap' = [heap EXCEPT ![obj].ref_count = @ - 1]
          /\ last' = [op |-> "ref_dec", arg |-> NULL]
          /\ UNCHANGED <<aize_mem_depth, aize_mem_bound, list, got, pc, frames, base, hist, appended, released>>

(***************************************************************************)
(* AizeList: AizeList_new, AizeList_append, AizeList_get                   *)
(***************************************************************************)
\* entries the block of l.arr has room for
RoomList(l) == l.bytes \div SizeofRef

\* the fields AizeList_new gives the struct that aize_mem_malloc returned as obj;
\* arr = calloc(LIST_START_SIZE, sizeof(AizeObjectRef))
ListFields(obj) ==
    [len |-> 0, capacity |-> LIST_START_SIZE, arr |-> <<>>,
     bytes |-> LIST_START_SIZE * SizeofRef, obj |-> obj]

\* the struct after AizeList_append(l, r): a full list has arr reallocated to
\* capacity * LIST_SCALE_FACTOR bytes and its capacity multiplied
ListAppend(l, r) ==
    LET full == l.len = l.capacity
    IN  [len      |-> l.len + 1,
         capacity |-> IF full THEN l.capacity * LIST_SCALE_FACTOR ELSE l.capacity,
         arr      |-> Append(l.arr, r),
         bytes    |-> IF full THEN l.capacity * LIST_SCALE_FACTOR ELSE l.bytes,
         obj      |-> l.obj]

\* the write arr[len] = obj leaves arr's block
append_oob(l) == l.len >= RoomList(ListAppend(l, NullRef))

\* the read arr[item] leaves arr's block
get_oob(l, item) == item < l.len /\ item >= RoomList(l)

\* what AizeList_get(l, item) can return: item is a size_t, so item >= 0 holds
ListGet(l, item) ==
    IF item < l.len
    THEN IF get_oob(l, item) THEN {l.arr[item + 1], WildRef} ELSE {l.arr[item + 1]}
    ELSE {NullRef}

AizeList_new ==
    /\ pc = "idle"
    /\ list = NoList
    /\ Len(heap) < base + MaxObjs
    /\ \E rc \in 0..MaxRef :
       \E out \in Outcomes(add_mem_oob(aize_mem_bound)) :
          IF out = "fault" THEN Fault("new", NULL)
          ELSE /\ heap' = Append(heap, NewObject(aize_mem_depth, rc))
               /\ hist' = Append(hist, [born |-> aize_mem_depth, marked |-> FALSE,
                                        open |-> TRUE])
               /\ aize_mem_bound' = aize_mem_add_mem(aize_mem_bound, Len(heap) + 1)
               /\ list' = ListFields(Len(heap) + 1)
               /\ last' = [op |-> "new", arg |-> NULL]
               /\ released' = Append(released, <<>>)
               /\ UNCHANGED <<aize_mem_depth, got, pc, frames, base, appended>>

AizeList_append ==
    /\ pc = "idle"
    /\ list # NoList
    /\ Len(appended) < base + MaxAppend
    /\ \E o \in Handles :
       \E out \in Outcomes(append_oob(list)) :
          IF out = "fault" THEN Fault("append", NULL)
          ELSE /\ list' = ListAppend(list, Ref(o))
               /\ appended' = Append(appended, Ref(o))
               /\ last' = [op |-> "append", arg |-> NULL]
               /\ UNCHANGED <<aize_mem_depth, aize_mem_bound, heap, got, pc, frames, base, hist, released>>

AizeList_get ==
    /\ pc = "idle"
    /\ list # NoList
    /\ \E item \in 0..(list.len + 1) :
       \E out \in Outcomes(get_oob(list, item)) :
          IF out = "fault" THEN Fault("get", item)
          ELSE /\ got' \in ListGet(list, item)
               /\ last' = [op |-> "get", arg |-> item]
               /\ UNCHANGED <<aize_mem_depth, aize_mem_bound, heap, list, pc, frames, base, hist, appended, released>>

(***************************************************************************)
(* Specification: the program after aize_mem_init, nothing allocated       *)
(***************************************************************************)
Init ==
    /\ aize_mem_depth = InitialDepth
    /\ aize_mem_bound = aize_mem_init
    /\ heap = <<>>
    /\ list = NoList
    /\ got = NoRef
    /\ pc = "idle"
    /\ frames = <<>>
    /\ base = 0
    /\ hist = <<>>
    /\ appended = <<>>
    /\ last = [op |-> "init", arg |-> NULL]
    /\ released = <<>>

Next ==
    \/ aize_mem_malloc
    \/ aize_mem_enter
    \/ aize_mem_exit
    \/ aize_mem_ret
    \/ aize_mem_ret_exit
    \/ ref_count_inc
    \/ ref_count_dec

Spec == Init /\ [][Next]_vars

(***************************************************************************)
(* Specification with an allocator that can run out of memory.             *)
(* aize_mem_malloc does not test what malloc returns: with mem == NULL the *)
(* write mem->depth = aize_mem_depth is undefined behaviour.  Either the   *)
(* process dies there, or the write goes through, aize_mem_add_mem stores  *)
(* the null pointer in the Ledger and the caller gets a null block         *)
(* (pc = "null_block"; what the program does with it is not explored).     *)
(***************************************************************************)
aize_mem_malloc_exhausted ==
    /\ pc = "idle"
    /\ \E out \in Outcomes(TRUE) :
          IF out = "fault" THEN Fault("malloc_null", NULL)
          ELSE /\ aize_mem_bound' = aize_mem_add_mem(aize_mem_bound, NULL)
               /\ pc' = "null_block"
               /\ last' = [op |-> "malloc_null", arg |-> NULL]
               /\ UNCHANGED <<aize_mem_depth, heap, list, got, frames, base, hist, appended, released>>

NextExhaust ==
    \/ Next
    \/ aize_mem_malloc_exhausted

SpecExhaust == Init /\ [][NextExhaust]_vars

(***************************************************************************)
(* Specification for the Ledger's resizing.  The program has allocated n1  *)
(* objects in the scope it starts in, called aize_mem_enter and allocated  *)
(* n2 more, START_SIZE - 1 entries in all: the next allocations fill the   *)
(* Ledger's first block and make it grow, the exits after that make it     *)
(* shrink.                                                                 *)
(***************************************************************************)
\* the Ledger after aize_mem_init and the allocation of objects 1..n, for
\* n <= START_SIZE: aize_mem_add_mem has stored each of them and has not grown
\* the block
Allocated(n) == [aize_mem_init EXCEPT !.len = n, !.arr = [i \in 1..n |-> i]]

InitResize ==
    \E n1 \in OuterCounts :
        /\ aize_mem_depth = enter_depth(InitialDepth)
        /\ aize_mem_bound = Allocated(START_SIZE - 1)
        /\ heap = [o \in 1..(START_SIZE - 1) |->
                      NewObject(IF o <= n1 THEN InitialDepth ELSE enter_depth(InitialDepth), 0)]
        /\ list = NoList
        /\ got = NoRef
        /\ pc = "idle"
        /\ frames = <<InitialDepth>>
        /\ base = START_SIZE - 1
        /\ hist = [o \in 1..(START_SIZE - 1) |->
                      [born |-> IF o <= n1 THEN InitialDepth ELSE enter_depth(InitialDepth),
                       marked |-> FALSE, open |-> TRUE]]
        /\ appended = <<>>
        /\ last = [op |-> "init", arg |-> NULL]
        /\ released = [o \in 1..(START_SIZE - 1) |-> <<>>]

\* the operations that add entries to the Ledger or take entries from it
NextResize ==
    \/ aize_mem_malloc
    \/ aize_mem_enter
    \/ aize_mem_exit
    \/ aize_mem_ret
    \/ aize_mem_ret_exit

SpecResize == InitResize /\ [][NextResize]_vars

(***************************************************************************)
(* Specification for AizeList.  The program has either allocated nothing,  *)
(* or allocated ListItems objects, made a list and appended a reference to *)
(* each of them, all in the scope it starts in.                            *)
(***************************************************************************)
RECURSIVE Appended(_)
Appended(n) ==
    IF n = 0 THEN ListFields(ListItems + 1) ELSE ListAppend(Appended(n - 1), Ref(n))

InitList ==
    \/ Init
    \/ /\ aize_mem_depth = InitialDepth
       /\ aize_mem_bound = Allocated(ListItems + 1)
       /\ heap = [o \in 1..(ListItems + 1) |-> NewObject(InitialDepth, 0)]
       /\ list = Appended(ListItems)
       /\ got = NoRef
       /\ pc = "idle"
       /\ frames = <<>>
       /\ base = ListItems
       /\ hist = [o \in 1..(ListItems + 1) |->
                     [born |-> InitialDepth, marked |-> FALSE, open |-> TRUE]]
       /\ appended = [i \in 1..ListItems |-> Ref(i)]
       /\ last = [op |-> "init", arg |-> NULL]
       /\ released = [o \in 1..(ListItems + 1) |-> <<>>]

NextList ==
    \/ aize_mem_malloc
    \/ AizeList_new
    \/ AizeList_append
    \/ AizeList_get

SpecList == InitList /\ [][NextList]_vars

(***************************************************************************)
(* Properties                                                              *)
(***************************************************************************)
InLedger(b, o) == \E i \in 1..b.len : b.arr[i] = o

Live(o) == o \in 1..Len(heap) /\ ~heap[o].freed

\* the entry belongs to the innermost open scope (or is pending promotion)
InScope(o) == heap[o].depth >= aize_mem_depth \/ heap[o].depth = 0

\* no aize_mem_exit has run without a matching aize_mem_enter: the scope the
\* program starts in is still open
Balanced ==
    IF frames = <<>> THEN aize_mem_depth = InitialDepth ELSE frames[1] = InitialDepth

\* this step is a completed aize_mem_exit (called directly or by aize_mem_ret)
ExitDone == pc' # "fault" /\ last'.op \in {"exit", "ret"}

\* this step is the marking step of aize_mem_ret
MarkDone == pc = "idle" /\ pc' = "ret"

C1_DepthStep ==
    /\ (pc' # "fault" /\ last'.op = "enter") =>
           aize_mem_depth' = aize_mem_depth + 1
    /\ ExitDone =>
           /\ aize_mem_depth' = aize_mem_depth - 1
           /\ frames # <<>> => aize_mem_depth' = frames[Len(frames)]

\* C1: Depth monotonicity.  Every aize_mem_enter raises the Depth Counter by
\* exactly 1, every aize_mem_exit lowers it by exactly 1, and the counter after
\* an exit is the value it had just before the matching enter (the value the
\* caller saved in frames), whatever was allocated or returned in between.
C1_DepthMonotonicity == [][C1_DepthStep]_vars

\* back in the scope the program started in, after a nested scope has exited
C1_Witness ==
    /\ pc = "idle" /\ last.op \in {"exit", "ret"}
    /\ aize_mem_depth = InitialDepth /\ frames = <<>>
    /\ Len(heap) > 0

\* the scope the program starts in (depth 1, entered by no aize_mem_enter) is
\* the innermost open scope
OutermostOpen == aize_mem_depth = InitialDepth /\ frames = <<>>

C2_Step ==
    ExitDone =>
        /\ \A o \in 1..Len(heap) :
              ( /\ Live(o) /\ hist[o].open /\ ~hist[o].marked
                /\ hist[o].born = aize_mem_depth
                /\ heap[o].ref_count = 0 )
              => heap'[o].freed /\ ~InLedger(aize_mem_bound', o)
        /\ ( /\ last'.op = "exit"
             /\ OutermostOpen
             /\ \A i \in 1..aize_mem_bound.len :
                   heap[aize_mem_bound.arr[i]].ref_count = 0 )
           => aize_mem_bound'.len = 0

\* C2: Reclamation soundness.  An object allocated at depth d with ref_count 0
\* that was never marked for return is freed and out of the Ledger once the
\* scope at depth d has exited (aize_mem_exit run with the Depth Counter at d);
\* and when the outermost scope, the one the program starts in, exits through
\* aize_mem_exit with every ref_count 0, the Ledger is empty afterwards.
C2_ReclamationSoundness == [][C2_Step]_vars

\* the outermost scope has exited, everything allocated was freed, nothing is left
C2_Witness ==
    /\ pc = "idle" /\ last.op = "exit" /\ aize_mem_depth = 0
    /\ Len(heap) >= 2 /\ \A o \in 1..Len(heap) : heap[o].freed
    /\ \E o \in 1..Len(heap) : hist[o] = GoneHist
    /\ aize_mem_bound.len = 0

C3_Step ==
    ExitDone =>
        \A o \in 1..Len(heap) :
            ( /\ Live(o) /\ hist[o].open /\ hist[o].marked
              /\ hist[o].born = aize_mem_depth )
            => /\ ~heap'[o].freed
               /\ heap'[o].depth = aize_mem_depth - 1
               /\ InLedger(aize_mem_bound', o)

\* C3: Escape correctness.  Every object allocated at depth d and marked by
\* aize_mem_ret before the scope at depth d exits has depth d-1 after that
\* exit, is not freed and is in the Ledger, however many objects of the
\* exiting scope are marked.
C3_EscapeCorrectness == [][C3_Step]_vars

C4_Step ==
    ExitDone =>
        \A o \in 1..Len(heap) :
            (Live(o) /\ heap[o].ref_count > 0 /\ heap[o].depth >= aize_mem_depth)
            => ~heap'[o].freed

\* C4: Floating persistence.  An object with ref_count > 0 whose depth is >=
\* the Depth Counter when aize_mem_exit runs is not freed by that exit.
C4_FloatingPersistence == [][C4_Step]_vars

C4_Witness ==
    /\ pc = "idle" /\ last.op \in {"exit", "ret"}
    /\ \E o \in 1..Len(heap) :
          /\ Live(o) /\ heap[o].ref_count > 0
          /\ heap[o].depth > aize_mem_depth
          /\ ~InLedger(aize_mem_bound, o)
    /\ \E o \in 1..Len(heap) : heap[o].freed

\* C5: Ledger ordering invariant.  In every state reached through balanced
\* enter/exit calls, with allocations and returns, the Ledger entries of the
\* innermost open scope (depth >= Depth Counter, or pending depth 0) form a contiguous suffix
\* of the Ledger, and, pending entries aside, the depths of the entries are
\* non-decreasing from head to tail.
C5_LedgerOrdering ==
    (pc # "fault" /\ Balanced) =>
        \A i, j \in 1..aize_mem_bound.len :
            i < j =>
                LET a == aize_mem_bound.arr[i]
                    b == aize_mem_bound.arr[j]
                IN  /\ InScope(a) => InScope(b)
                    /\ (heap[a].depth # 0 /\ heap[b].depth # 0)
                           => heap[a].depth <= heap[b].depth

\* inside aize_mem_ret in a nested scope: the marked entry is pending, in the
\* middle of its scope's entries, above an entry of the enclosing scope
C5_Witness ==
    /\ pc = "ret" /\ Balanced /\ aize_mem_depth = 2
    /\ aize_mem_bound.len >= 2
    /\ heap[aize_mem_bound.arr[1]].depth = 1
    /\ heap[aize_mem_bound.arr[aize_mem_bound.len]].depth = 0

\* C6: in every state reached after aize_mem_init by allocations, enters and
\* exits (returns included), the Ledger's capacity is at least its length.
C6_CapacityAtLeastLength == aize_mem_bound.capacity >= aize_mem_bound.len

\* the Ledger has grown past its first block and has been halved again, with
\* entries left in it
C6_Witness ==
    /\ pc = "idle" /\ last.op \in {"exit", "ret"}
    /\ aize_mem_bound.capacity = START_SIZE
    /\ aize_mem_bound.bytes # START_SIZE * SizeofPtr
    /\ aize_mem_bound.len > 0

C7_Step ==
    (ExitDone /\ aize_mem_bound'.capacity < aize_mem_bound.capacity) =>
        LET num    == aize_mem_collect(heap, aize_mem_bound, aize_mem_depth).num
            popped == aize_mem_pop_mem(aize_mem_bound, num)
        IN  /\ Room(popped) >= popped.len
            /\ \A i \in 1..popped.len : popped.arr[i] = aize_mem_bound.arr[i]

\* C7: Shrinking never discards live entries.  Whenever aize_mem_pop_mem halves
\* the Ledger's capacity, the reallocated block (its size in bytes divided by
\* the size of one entry) has room for each of the len entries that remain, and
\* these keep their values and their order.
C7_ShrinkKeepsEntries == [][C7_Step]_vars

\* C8: Container growth.  After AizeList_new and n calls of AizeList_append,
\* n greater than LIST_START_SIZE included, the list's length is n, its capacity
\* is at least its length, the block of arr has room for capacity entries, and
\* AizeList_get(i) returns the i-th appended reference for every 0 <= i < n.
C8_ContainerGrowth ==
    (list # NoList /\ pc # "fault") =>
        /\ list.len = Len(appended)
        /\ list.capacity >= list.len
        /\ RoomList(list) >= list.capacity
        /\ \A item \in 0..(list.len - 1) : ListGet(list, item) = {appended[item + 1]}

C9_Step ==
    (pc = "idle" /\ last'.op = "get") =>
        /\ pc' # "fault"
        /\ got' = IF last'.arg < list.len THEN appended[last'.arg + 1] ELSE NullRef
        /\ list' = list
        /\ aize_mem_bound' = aize_mem_bound
        /\ aize_mem_depth' = aize_mem_depth

\* C9: AizeList_get(list, index) returns the stored reference when
\* 0 <= index < length and the null reference for every index >= length; it
\* never faults and changes neither the list, nor the Ledger, nor the Depth
\* Counter.
C9_GetTotal == [][C9_Step]_vars

C11_Step ==
    (pc' # "fault" /\ last'.op = "malloc") =>
        LET new == Len(heap) + 1 IN
        /\ Len(heap') = new
        /\ heap'[new].depth = aize_mem_depth /\ ~heap'[new].freed
        /\ \A o \in 1..Len(heap) : heap'[o] = heap[o]
        /\ aize_mem_bound'.len = aize_mem_bound.len + 1
        /\ aize_mem_bound'.arr[aize_mem_bound'.len] = new
        /\ \A i \in 1..aize_mem_bound.len : aize_mem_bound'.arr[i] = aize_mem_bound.arr[i]
        /\ aize_mem_depth' = aize_mem_depth

\* C11: aize_mem_malloc stamps the new object's depth with the current Depth
\* Counter and appends it as the last Ledger entry: the Ledger's length grows
\* by exactly 1, every earlier entry keeps its index and value, no other header
\* changes and the Depth Counter is unchanged.
C11_MallocPostcondition == [][C11_Step]_vars

\* an allocation in a nested scope, on top of entries of the enclosing scope
C11_Witness ==
    /\ pc = "idle" /\ last.op = "malloc"
    /\ aize_mem_depth = 2 /\ aize_mem_bound.len >= 2
    /\ heap[aize_mem_bound.arr[1]].depth = 1
    /\ heap[aize_mem_bound.arr[aize_mem_bound.len]].depth = 2

C12_Step ==
    (pc = "idle" /\ last'.op = "malloc_null") =>
        /\ pc' = "fault"
        /\ heap' = heap
        /\ aize_mem_bound' = aize_mem_bound

\* C12: Allocation exhaustion is fatal and never silent.  When the system
\* allocator cannot satisfy a request made through aize_mem_malloc, the process
\* stops before any header field is written and before the Ledger is modified;
\* the operation does not go on with a null block.
C12_ExhaustionIsFatal == [][C12_Step]_vars

\* C13: Depth invariant.  In every reachable state, every object that has been
\* allocated and not freed and whose depth is not the pending sentinel 0 has a
\* depth <= the current Depth Counter.
C13_DepthInvariant ==
    \A o \in 1..Len(heap) :
        (Live(o) /\ heap[o].depth # 0) => heap[o].depth <= aize_mem_depth

\* C13 (amended): in every reachable state, every object that is an entry of the
\* Ledger and whose depth is not the pending sentinel 0 has a depth <= the
\* current Depth Counter.  (A floating object, popped from the Ledger at its
\* scope's exit and not freed, keeps the depth of the scope that is gone.)
C13_LedgerDepthInvariant ==
    \A i \in 1..aize_mem_bound.len :
        heap[aize_mem_bound.arr[i]].depth # 0
            => heap[aize_mem_bound.arr[i]].depth <= aize_mem_depth

\* after the exit of a nested scope through aize_mem_ret: the promoted object
\* is a Ledger entry at the Depth Counter, a floating object of the scope that
\* is gone is alive outside the Ledger
C13_Witness ==
    /\ pc = "idle" /\ last.op = "ret" /\ aize_mem_depth = 1
    /\ InLedger(aize_mem_bound, last.arg)
    /\ hist[last.arg].born = 2 /\ heap[last.arg].depth = 1
    /\ \E o \in 1..Len(heap) :
          Live(o) /\ ~InLedger(aize_mem_bound, o) /\ heap[o].depth = 2

C14_Step ==
    ExitDone =>
        \A o \in 1..Len(heap) :
            /\ (heap'[o].freed /\ ~heap[o].freed /\ HasHook(o))
                   => released'[o] = <<"on_release", "free">>
            /\ ( /\ Live(o)
                 /\ \/ heap[o].ref_count # 0
                    \/ heap[o].depth = 0
                    \/ heap[o].depth < aize_mem_depth )
               => released'[o] = <<>>

VisitedFrom ==
    LET starts == {i \in 1..(aize_mem_bound.len + 1) :
                      \A j \in i..aize_mem_bound.len : InScope(aize_mem_bound.arr[j])}
    IN  CHOOSE i \in starts : \A j \in starts : i <= j

C15_Step ==
    ExitDone =>
        LET from    == VisitedFrom
            k       == aize_mem_bound.len - from + 1
            pending == {aize_mem_bound.arr[i] : i \in
                           {j \in from..aize_mem_bound.len :
                               heap[aize_mem_bound.arr[j]].depth = 0}}
            below   == SubSeq(aize_mem_bound.arr, 1, from - 1)
        IN  IF pending = {}
            THEN /\ aize_mem_bound'.len = aize_mem_bound.len - k
                 /\ aize_mem_bound'.arr = below
            ELSE /\ aize_mem_bound'.len = aize_mem_bound.len - k + 1
                 /\ SubSeq(aize_mem_bound'.arr, 1, from - 1) = below
                 /\ aize_mem_bound'.arr[from] \in pending
                 /\ \A i \in from..aize_mem_bound.len :
                       heap[aize_mem_bound.arr[i]].depth # 0
                           => ~InLedger(aize_mem_bound', aize_mem_bound.arr[i])

\* C15: Scope-exit postcondition on the Ledger.  If aize_mem_collect visits k
\* entries, then after aize_mem_exit the Ledger consists of the entries that
\* were below the visited suffix, at the same indices and in the same order,
\* followed by the promoted object if one was found; its length is the old
\* length minus k, plus 1 if a promoted object was found, and the floating and
\* the reclaimed entries are no longer in it.
C15_ExitLedgerPostcondition == [][C15_Step]_vars

\* aize_mem_ret has left an entry of the enclosing scope in place and has put
\* the promoted object behind it
C15_Witness ==
    /\ pc = "idle" /\ last.op = "ret"
    /\ aize_mem_bound.len = 2 /\ aize_mem_bound.arr[2] = last.arg
    /\ aize_mem_bound.arr[1] < last.arg
    /\ hist[aize_mem_bound.arr[1]].born = aize_mem_depth
    /\ hist[last.arg].born = aize_mem_depth + 1

C16_Step ==
    ExitDone =>
        \A i \in 1..aize_mem_bound.len :
            LET o == aize_mem_bound.arr[i] IN
            (0 < heap[o].depth /\ heap[o].depth < aize_mem_depth) =>
                /\ ~heap'[o].freed
                /\ heap'[o].depth = heap[o].depth
                /\ heap'[o].ref_count = heap[o].ref_count
                /\ i <= aize_mem_bound'.len /\ aize_mem_bound'.arr[i] = o

\* C16: aize_mem_exit leaves every object of an enclosing, still active scope
\* untouched: a Ledger entry with 0 < depth < Depth Counter when the exit runs is
\* not freed, its depth and its ref_count are unchanged by the exit, and it
\* stays where it is in the Ledger (the scan stops at the first such entry it
\* meets from the tail).
C16_EnclosingScopeUntouched == [][C16_Step]_vars

\* a nested scope has exited and freed its object; the object of the enclosing
\* scope, allocated before it, is still the Ledger's entry
C16_Witness ==
    /\ pc = "idle" /\ last.op = "exit" /\ aize_mem_depth = 1
    /\ aize_mem_bound.len = 1
    /\ heap[aize_mem_bound.arr[1]].depth = 1 /\ hist[aize_mem_bound.arr[1]].born = 1
    /\ \E o \in 1..Len(heap) : o > aize_mem_bound.arr[1] /\ heap[o].freed

C17_Step ==
    /\ ExitDone =>
           \A i \in VisitedFrom..aize_mem_bound.len :
               LET o == aize_mem_bound.arr[i] IN
               (heap[o].depth >= aize_mem_depth /\ heap[o].ref_count # 0) =>
                   ~heap'[o].freed /\ ~InLedger(aize_mem_bound', o)
    /\ \A o \in 1..Len(heap) :
           (Live(o) /\ ~InLedger(aize_mem_bound, o)) =>
               ~heap'[o].freed /\ ~InLedger(aize_mem_bound', o)

\* C17: Floating objects are never reclaimed later.  An object that survives
\* its scope's exit because its ref_count is not 0 leaves the Ledger at that
\* exit without being freed; and from then on no enter, exit, allocation or
\* return, and no change of its ref_count, frees it or makes it a Ledger entry
\* again.
C17_FloatingNeverReclaimed == [][C17_Step]_vars

\* an object floated at the exit of a nested scope; its ref_count has dropped
\* to 0 since and the enclosing scope has exited too: it is still allocated
C17_Witness ==
    /\ pc = "idle" /\ last.op = "exit" /\ aize_mem_depth = 0
    /\ \E o \in 1..Len(heap) :
          /\ Live(o) /\ ~InLedger(aize_mem_bound, o)
          /\ heap[o].depth = 2 /\ heap[o].ref_count = 0

C18_Step ==
    /\ ExitDone =>
           \A i \in 1..aize_mem_bound'.len : heap'[aize_mem_bound'.arr[i]].depth # 0
    /\ (pc' # "fault" /\ last'.op = "malloc") => heap'[Len(heap')].depth # 0

\* C18: the sentinel depth 0 is used only transiently.  Whenever an
\* aize_mem_exit has completed (called directly or by aize_mem_ret, the exit of
\* the depth-1 scope included) no object in the Ledger has depth 0, and
\* aize_mem_malloc never stamps a new object with depth 0 (allocations after
\* the exit of the depth-1 scope included).
C18_SentinelTransient == [][C18_Step]_vars

\* this step is a completed allocation: aize_mem_add_mem has appended an entry
AddDone == pc' # "fault" /\ last'.op \in {"malloc", "new"}

\* the resize policy over one step; big says when a capacity is large enough to
\* be halved
C19_Policy(big(_)) ==
    LET b == aize_mem_bound IN
    /\ AddDone =>
           /\ aize_mem_bound'.capacity =
                  IF b.len = b.capacity THEN 2 * b.capacity ELSE b.capacity
           /\ \A i \in 1..b.len : aize_mem_bound'.arr[i] = b.arr[i]
    /\ ExitDone =>
           LET l == b.len - aize_mem_collect(heap, b, aize_mem_depth).num
           IN  aize_mem_bound'.capacity =
                  IF l < b.capacity \div 4 /\ big(b.capacity)
                  THEN b.capacity \div 2 ELSE b.capacity
    /\ (~AddDone /\ ~ExitDone) => aize_mem_bound'.capacity = b.capacity

C19_Exceeds(c) == c > 2 * START_SIZE

C19_AtLeast(c) == c >= 2 * START_SIZE

\* C19 as stated: Ledger resize policy.  After aize_mem_init the capacity is
\* the initial capacity 256; an append doubles the capacity exactly when
\* length = capacity, keeping all old entries in order; a truncation halves the
\* capacity exactly when the new length is below capacity/4 and the capacity
\* exceeds twice the initial size; no other operation changes the capacity.
C19_ResizePolicy ==
    /\ aize_mem_init.capacity = 256
    /\ [][C19_Policy(C19_Exceeds)]_vars

\* C19 as amended: the same policy, with a truncation halving the capacity
\* exactly when the new length is below capacity/4 and the capacity is at least
\* twice the initial size.
C19_ResizePolicyAtLeast ==
    /\ aize_mem_init.capacity = 256
    /\ [][C19_Policy(C19_AtLeast)]_vars

\* an exit has halved a Ledger whose capacity was exactly twice the initial
\* size, after appends had doubled it
C19_Witness ==
    /\ pc = "idle" /\ last.op \in {"exit", "ret"}
    /\ aize_mem_bound.capacity = START_SIZE
    /\ aize_mem_bound.bytes = (SHRINK_FACTOR * START_SIZE) \div SHRINK_FACTOR
    /\ aize_mem_bound.len < (SHRINK_FACTOR * START_SIZE) \div SHRINK_WHEN

\* C20: no dangling or duplicate Ledger entries.  In every state reachable by
\* any sequence of allocate, enter, mark-return and exit operations, every
\* Ledger entry refers to an object that has not been freed, no object appears
\* in the Ledger more than once, and no object is freed twice: the collection
\* pass an exit would run from here meets no entry whose object is freed
\* already, before the pass or at an earlier step of it.
C20_NoDanglingNoDuplicate ==
    LET b == aize_mem_bound IN
    /\ \A i \in 1..b.len : b.arr[i] \in 1..Len(heap) /\ ~heap[b.arr[i]].freed
    /\ \A i, j \in 1..b.len : b.arr[i] = b.arr[j] => i = j
    /\ ~collect_loop(heap, b.arr, b.len, aize_mem_depth).uaf

\* aize_mem_ret has freed one object of the exited scope and has put the
\* returned object back into the Ledger
C20_Witness ==
    /\ pc = "idle" /\ last.op = "ret"
    /\ InLedger(aize_mem_bound, last.arg)
    /\ \E o \in 1..Len(heap) : heap[o].freed /\ ~InLedger(aize_mem_bound, o)

\* what aize_mem_ret's call of aize_mem_exit makes of the state its marking
\* step has left
C21_Exit == aize_mem_collect(heap', aize_mem_bound', aize_mem_depth')

C21_Step ==
    /\ MarkDone =>
           LET obj == last'.arg
               b   == C21_Exit.bound
           IN  /\ heap' = mark_return(heap, aize_mem_depth, obj)
               /\ UNCHANGED <<aize_mem_depth, aize_mem_bound>>
               /\ heap[obj].depth >= aize_mem_depth =>
                      /\ b.len > 0 /\ b.arr[b.len] = obj
                      /\ ~C21_Exit.heap[obj].freed
                      /\ C21_Exit.heap[obj].depth = aize_mem_depth - 1
    /\ (pc = "ret" /\ ExitDone) =>
           LET c == aize_mem_collect(heap, aize_mem_bound, aize_mem_depth)
           IN  /\ last'.op = "ret" /\ last'.arg = last.arg
               /\ heap' = c.heap /\ aize_mem_bound' = c.bound
               /\ aize_mem_depth' = aize_mem_depth - 1

\* C21: aize_mem_ret(obj) is equivalent to mark_return(obj) immediately
\* followed by aize_mem_exit and returns the same reference.  After it the
\* Depth Counter is one less than before, and if obj.depth was >= the old
\* Depth Counter then obj is the last Ledger entry, is not freed, and has
\* depth equal to the new Depth Counter.
C21_RetIsMarkThenExit == [][C21_Step]_vars

C10_Step ==
    MarkDone =>
        LET obj == last'.arg IN
        /\ Live(obj)
        /\ heap'[obj].depth = IF heap[obj].depth >= aize_mem_depth THEN 0
                              ELSE heap[obj].depth
        /\ heap'[obj].ref_count = heap[obj].ref_count
        /\ heap'[obj].freed = heap[obj].freed
        /\ \A o \in 1..Len(heap) : o # obj => heap'[o] = heap[o]
        /\ Len(heap') = Len(heap)
        /\ aize_mem_bound' = aize_mem_bound
        /\ aize_mem_depth' = aize_mem_depth

\* C10: the marking step of aize_mem_ret sets obj's depth to the sentinel 0
\* exactly when obj.depth >= the Depth Counter and leaves it as it was when
\* obj.depth < the Depth Counter; in both cases no other header, and nothing
\* of the Ledger (contents, order), is modified by the marking step.
C10_MarkReturnFrame == [][C10_Step]_vars

C10_Witness ==
    /\ pc = "ret"
    /\ heap[last.arg].depth = 0 /\ hist[last.arg].marked
    /\ \E o \in 1..Len(heap) :
          /\ o # last.arg /\ Live(o) /\ InLedger(aize_mem_bound, o)
          /\ heap[o].depth = aize_mem_depth

====
